---- MODULE Spec2Model ----
(***************************************************************************)
(* Countdown timers of stm32f4xx-hal (src/timer.rs, src/timer/count_down.rs)*)
(*                                                                         *)
(* The model is one general-purpose timer peripheral (TIMx) seen through   *)
(* the `General` register interface, wrapped first in a `Timer` handle and *)
(* then in a `CountDownTimer<TIM, FREQ>`.  Every u32 of the program is a    *)
(* pair <<high half, low half>> of 16-bit halves, so that the arithmetic   *)
(* keeps its 32-bit width.                                                 *)
(***************************************************************************)
EXTENDS Integers, Sequences, FiniteSets, TLC

VARIABLES
    phase,            \* "handle": Timer<TIM>; "engine": CountDownTimer; "released"; "panicked"
    overflow_checks,  \* the build: TRUE when integer overflow panics, FALSE when it wraps
    bits,             \* the peripheral's native counter width ($bits), 16 or 32
    handle,           \* the Timer<TIM> fields clk and the FREQ it is converted with
    tim,              \* the registers of the peripheral
    ret,              \* the last call of the API, its argument and what it returned
    hist,             \* history of the running period (observation only)
    dwt,              \* DWT.CYCCNT, the free-running cycle counter
    instant,          \* Instant.now, the snapshot taken by MonoTimer::now
    mono_obs,         \* the last call on the monotonic clock and the cycles truly elapsed
    syst,             \* the registers of the system tick peripheral SYST
    mhz,              \* SysCountDownTimer.mhz
    sys_obs           \* the last call on the SysCountDownTimer and its history

tim_vars == <<phase, overflow_checks, bits, handle, tim, ret, hist>>

mono_vars == <<dwt, instant, mono_obs>>

syst_vars == <<syst, mhz, sys_obs>>

vars == <<tim_vars, mono_vars, syst_vars>>

----------------------------------------------------------------------------
(* 32-bit unsigned arithmetic on <<hi, lo>> pairs                          *)

U16_MAX == 65535

Half == U16_MAX + 1

U32(n) == <<n \div Half, n % Half>>

U32_ZERO == <<0, 0>>

U32_ONE == <<0, 1>>

U32_MAX == <<U16_MAX, U16_MAX>>

U32Lt(x, y) == x[1] < y[1] \/ (x[1] = y[1] /\ x[2] < y[2])

U32Le(x, y) == x = y \/ U32Lt(x, y)

\* x - y modulo 2^32
wrapping_sub(x, y) ==
    LET borrow == IF x[2] < y[2] THEN 1 ELSE 0
    IN  <<(x[1] - y[1] - borrow + Half) % Half, (x[2] - y[2] + Half) % Half>>

\* x + y: the sum modulo 2^32 and the carry out of bit 31
AddCarry(x, y) ==
    LET lo == x[2] + y[2]
        hi == x[1] + y[1] + (lo \div Half)
    IN  [val |-> <<hi % Half, lo % Half>>, carry |-> hi \div Half]

\* x + 1 modulo 2^32
wrapping_inc(x) ==
    IF x[2] = U16_MAX THEN <<(x[1] + 1) % Half, 0>> ELSE <<x[1], x[2] + 1>>

\* The `-` of the language on u32: the difference, or a panic on overflow in
\* a build with overflow checks, or the wrapped difference without them.
Sub(x, y, checks) ==
    IF U32Lt(x, y) /\ checks
    THEN [panic |-> TRUE, val |-> U32_ZERO]
    ELSE [panic |-> FALSE, val |-> wrapping_sub(x, y)]

\* <$bits>::MAX as u32
WidthMax(w) == IF w = 16 THEN <<0, U16_MAX>> ELSE U32_MAX

----------------------------------------------------------------------------
(* The register interface `General` (macro hal!)                           *)

enable_counter(t) == [t EXCEPT !.cen = TRUE]

disable_counter(t) == [t EXCEPT !.cen = FALSE]

is_counter_enabled(t) == t.cen

reset_counter(t) == [t EXCEPT !.cnt = U32_ZERO]

set_prescaler(t, psc) == [t EXCEPT !.psc = psc]

\* accepts a reload value of zero
set_auto_reload_zero(t, arr, w) ==
    IF U32Le(arr, WidthMax(w))
    THEN [res |-> "Ok", tim |-> [t EXCEPT !.arr = arr]]
    ELSE [res |-> "WrongAutoReload", tim |-> t]

set_auto_reload(t, arr, w) ==
    IF U32Lt(U32_ZERO, arr) /\ U32Le(arr, WidthMax(w))
    THEN [res |-> "Ok", tim |-> [t EXCEPT !.arr = arr]]
    ELSE [res |-> "WrongAutoReload", tim |-> t]

\* EGR.UG: the counter is re-initialised; UIF is set only when URS = 0.
generate_update(t) ==
    [t EXCEPT !.cnt = U32_ZERO, !.uif = IF t.urs THEN t.uif ELSE TRUE]

\* an update forced without URS: the update flag is set as by an overflow
trigger_update_flagging(t) == generate_update([t EXCEPT !.urs = FALSE])

trigger_update(t) ==
    LET t1 == [t EXCEPT !.urs = TRUE]
        t2 == generate_update(t1)
    IN  [t2 EXCEPT !.urs = FALSE]

\* sr.write(|w| w.uif().clear_bit()): the whole status register is written
\* from its reset value 0, which clears every flag of SR.
clear_update_interrupt_flag(t) == [t EXCEPT !.uif = FALSE, !.ccif = FALSE]

\* dier.write(|w| w.uie().bit(b)): every other enable bit of DIER is written 0.
listen_update_interrupt(t, b) == [t EXCEPT !.uie = b, !.ccie = FALSE]

\* true when UIF is set
get_update_interrupt_flag_set(t) == t.uif

\* true when UIF is clear (uif().bit_is_clear())
get_update_interrupt_flag(t) == ~t.uif

read_count(t) == t.cnt

read_auto_reload(t) == t.arr

\* `as Self::Width` followed by `.into()`: the register value cut to the width
Width(x, w) == IF w = 16 THEN <<0, x[2]>> ELSE x

\* a cast that keeps the low 16 bits (`as u16`)
u16_truncating(x) == [ok |-> TRUE, val |-> x[2]]

\* cast::u16: the value, or an error when it does not fit 16 bits
u16(x) == IF x[1] = 0 THEN [ok |-> TRUE, val |-> x[2]] ELSE [ok |-> FALSE, val |-> 0]

----------------------------------------------------------------------------
(* CountDownTimer<TIM, FREQ>: each method as a function of the registers   *)

\* the divider without the "- 1"
CountDownTimer_new_quotient(t, clk, FREQ, checks) ==
    LET c == u16(U32(clk \div FREQ))
    IN  IF ~c.ok
        THEN [res |-> "panic", tim |-> t]
        ELSE [res |-> "Ok", tim |-> set_prescaler(t, c.val)]

CountDownTimer_new(t, clk, FREQ, checks) ==
    LET psc == Sub(U32(clk \div FREQ), U32_ONE, checks)
        c == u16(psc.val)
    IN  IF psc.panic \/ ~c.ok
        THEN [res |-> "panic", tim |-> t]
        ELSE [res |-> "Ok", tim |-> set_prescaler(t, c.val)]

CountDownTimer_listen(t) == listen_update_interrupt(t, TRUE)

CountDownTimer_clear_interrupt(t) == clear_update_interrupt_flag(t)

CountDownTimer_unlisten(t) == listen_update_interrupt(t, FALSE)

\* a release that hands the peripheral back as it is
CountDownTimer_release_running(t) == t

CountDownTimer_release(t) == disable_counter(t)

CountDownTimer_now(t, w, checks) ==
    Sub(Width(read_auto_reload(t), w), Width(read_count(t), w), checks)

\* a start that validates the auto-reload value before it stops the counter
CountDownTimer_start_validating(t, timeout, w, checks) ==
    LET arr == Sub(timeout, U32_ONE, checks)
        r == set_auto_reload(reset_counter(disable_counter(t)), arr.val, w)
    IN  IF arr.panic THEN [res |-> "panic", tim |-> t]
        ELSE IF r.res # "Ok" THEN [res |-> r.res, tim |-> t]
        ELSE [res |-> "Ok", tim |-> enable_counter(trigger_update(r.tim))]

\* a start that enables the counter before it forces the update event
CountDownTimer_start_steps_early(t, timeout, w, checks) ==
    LET t1 == disable_counter(t)
        t2 == reset_counter(t1)
        arr == Sub(timeout, U32_ONE, checks)
        r == set_auto_reload(t2, arr.val, w)
        t4 == enable_counter(r.tim)
        t5 == trigger_update(t4)
        head == <<[step |-> "disable_counter", tim |-> t1],
                  [step |-> "reset_counter", tim |-> t2]>>
    IN  IF arr.panic THEN [res |-> "panic", trace |-> head]
        ELSE IF r.res # "Ok"
        THEN [res |-> r.res,
              trace |-> Append(head, [step |-> "set_auto_reload", tim |-> r.tim])]
        ELSE [res |-> "Ok",
              trace |-> head \o <<[step |-> "set_auto_reload", tim |-> r.tim],
                                  [step |-> "enable_counter", tim |-> t4],
                                  [step |-> "trigger_update", tim |-> t5]>>]

\* a start that only writes the auto-reload value and enables the counter
CountDownTimer_start_steps_live(t, timeout, w, checks) ==
    LET t1 == disable_counter(t)
        arr == Sub(timeout, U32_ONE, checks)
        r == set_auto_reload(t1, arr.val, w)
        t5 == enable_counter(r.tim)
        head == <<[step |-> "disable_counter", tim |-> t1]>>
    IN  IF arr.panic THEN [res |-> "panic", trace |-> head]
        ELSE IF r.res # "Ok"
        THEN [res |-> r.res,
              trace |-> Append(head, [step |-> "set_auto_reload", tim |-> r.tim])]
        ELSE [res |-> "Ok",
              trace |-> head \o <<[step |-> "set_auto_reload", tim |-> r.tim],
                                  [step |-> "enable_counter", tim |-> t5]>>]

\* a start that forgets to enable the counter again
CountDownTimer_start_steps_stopped(t, timeout, w, checks) ==
    LET t1 == disable_counter(t)
        t2 == reset_counter(t1)
        arr == Sub(timeout, U32_ONE, checks)
        r == set_auto_reload(t2, arr.val, w)
        t4 == trigger_update(r.tim)
        head == <<[step |-> "disable_counter", tim |-> t1],
                  [step |-> "reset_counter", tim |-> t2]>>
    IN  IF arr.panic THEN [res |-> "panic", trace |-> head]
        ELSE IF r.res # "Ok"
        THEN [res |-> r.res,
              trace |-> Append(head, [step |-> "set_auto_reload", tim |-> r.tim])]
        ELSE [res |-> "Ok",
              trace |-> head \o <<[step |-> "set_auto_reload", tim |-> r.tim],
                                  [step |-> "trigger_update", tim |-> t4]>>]

\* The register steps of start, in program order, with the peripheral after
\* each of them; the ? on set_auto_reload and the panic of the subtraction
\* end the sequence early.
CountDownTimer_start_steps(t, timeout, w, checks) ==
    LET t1 == disable_counter(t)
        t2 == reset_counter(t1)
        arr == Sub(timeout, U32_ONE, checks)
        r == set_auto_reload(t2, arr.val, w)
        t4 == trigger_update(r.tim)
        t5 == enable_counter(t4)
        head == <<[step |-> "disable_counter", tim |-> t1],
                  [step |-> "reset_counter", tim |-> t2]>>
    IN  IF arr.panic THEN [res |-> "panic", trace |-> head]
        ELSE IF r.res # "Ok"
        THEN [res |-> r.res,
              trace |-> Append(head, [step |-> "set_auto_reload", tim |-> r.tim])]
        ELSE [res |-> "Ok",
              trace |-> head \o <<[step |-> "set_auto_reload", tim |-> r.tim],
                                  [step |-> "trigger_update", tim |-> t4],
                                  [step |-> "enable_counter", tim |-> t5]>>]

CountDownTimer_start(t, timeout, w, checks) ==
    LET s == CountDownTimer_start_steps(t, timeout, w, checks)
    IN  [res |-> s.res, tim |-> s.trace[Len(s.trace)].tim]

\* a one-shot timer: the counter is stopped when the period is consumed
CountDownTimer_wait_oneshot(t) ==
    IF get_update_interrupt_flag(t)
    THEN [res |-> "WouldBlock", tim |-> t]
    ELSE [res |-> "Ok", tim |-> disable_counter(clear_update_interrupt_flag(t))]

\* a wait that reports a stopped counter
CountDownTimer_wait_disabled(t) ==
    IF ~is_counter_enabled(t) THEN [res |-> "Disabled", tim |-> t]
    ELSE IF get_update_interrupt_flag(t)
    THEN [res |-> "WouldBlock", tim |-> t]
    ELSE [res |-> "Ok", tim |-> clear_update_interrupt_flag(t)]

CountDownTimer_wait(t) ==
    IF get_update_interrupt_flag(t)
    THEN [res |-> "WouldBlock", tim |-> t]
    ELSE [res |-> "Ok", tim |-> clear_update_interrupt_flag(t)]

\* a cancel that reports Ok and leaves the counter running
CountDownTimer_cancel_running(t) ==
    IF ~is_counter_enabled(t)
    THEN [res |-> "Disabled", tim |-> t]
    ELSE [res |-> "Ok", tim |-> t]

\* a cancel that does not look at the counter
CountDownTimer_cancel_unchecked(t) == [res |-> "Ok", tim |-> disable_counter(t)]

CountDownTimer_cancel(t) ==
    IF ~is_counter_enabled(t)
    THEN [res |-> "Disabled", tim |-> t]
    ELSE [res |-> "Ok", tim |-> disable_counter(t)]

----------------------------------------------------------------------------
(* Bounds and inputs                                                       *)

\* timeouts 0..MaxTimeout are tried, next to the values around the widths
MaxTimeout == 3

\* counter ticks followed after one successful start
MaxElapsed == 6

\* period expiries since construction that no complete wait() has answered
\* yet are counted up to this number
MaxUnpaid == 1

TimeoutSet ==
    {U32(n) : n \in 0..MaxTimeout}
        \cup {<<0, U16_MAX>>, <<1, 0>>, <<1, 1>>, U32_MAX}

\* timer clocks in Hz the engine is followed with: one below every FREQ (the
\* construction panics) and one every FREQ divides
ClkSet == {500, 16000000}

\* FREQ of CountDownTimerMs and CountDownTimerUs
FreqSet == {1000, 1000000}

\* timer clocks in Hz the construction alone is tried with: around FREQ,
\* around 65536 * FREQ, not a multiple of FREQ, and the largest below 2^31
NewClkSet ==
    {1, 500, 999, 1000, 1001, 65535, 65536, 65537, 999999, 1000000, 16000000,
     65535000, 65536000, 65536999, 65537000, 84000000, 168000000, 2147483647}

\* FREQ of count_down::<FREQ>(): 1 Hz, 1 kHz, 32.768 kHz, 1 MHz
NewFreqSet == {1, 1000, 32768, 1000000}

----------------------------------------------------------------------------
(* The state machine                                                       *)

Call(op, arg, res, val) == [op |-> op, arg |-> arg, res |-> res, val |-> val]

HistIdle ==
    [started |-> FALSE, timeout |-> U32_ZERO, elapsed |-> 0, expired |-> 0,
     done |-> 0, cleared |-> FALSE, cancelled_clear |-> FALSE,
     last_start_ok |-> FALSE, stopped_running |-> FALSE, unpaid |-> 0]

\* The peripheral after TIM::reset
ResetState(w) ==
    [cen |-> FALSE, urs |-> FALSE, cnt |-> U32_ZERO, arr |-> WidthMax(w),
     psc |-> 0, uif |-> FALSE, uie |-> FALSE, ccif |-> FALSE, ccie |-> FALSE]

\* The monotonic clock and the system tick timer when they are not followed.
MonoIdle ==
    /\ dwt = U32_ZERO
    /\ instant = U32_ZERO
    /\ mono_obs = [op |-> "idle", val |-> U32_ZERO, wraps |-> 0, cycles |-> U32_ZERO,
                   advances |-> 0]

SystIdle ==
    /\ syst = [enable |-> FALSE, tickint |-> FALSE, countflag |-> FALSE,
               rvr |-> 0, cvr |-> 0]
    /\ mhz = 0
    /\ sys_obs = [op |-> "idle", arg |-> U32_ZERO, res |-> "Ok", val |-> U32_ZERO,
                  started |-> FALSE, stale |-> FALSE,
                  wrapped |-> 0, done |-> 0, elapsed |-> 0]

\* Timer::new has run: the peripheral is enabled and reset, clk is resolved.
Init ==
    /\ phase = "handle"
    /\ overflow_checks \in BOOLEAN
    /\ bits \in {16, 32}
    /\ handle \in [clk : ClkSet, freq : FreqSet]
    /\ tim = ResetState(bits)
    /\ ret = Call("Timer::new", U32_ZERO, "Ok", U32_ZERO)
    /\ hist = HistIdle
    /\ MonoIdle
    /\ SystIdle

\* Timer::count_down::<FREQ>() -> CountDownTimer::new(tim, clk)
new ==
    /\ phase = "handle"
    /\ LET r == CountDownTimer_new(tim, handle.clk, handle.freq, overflow_checks)
       IN  /\ tim' = r.tim
           /\ phase' = IF r.res = "Ok" THEN "engine" ELSE "panicked"
           /\ ret' = Call("new", U32(handle.clk), r.res, U32_ZERO)
    /\ handle' = [handle EXCEPT !.clk = 0]
    /\ UNCHANGED <<mono_vars, syst_vars, overflow_checks, bits, hist>>

listen ==
    /\ phase = "engine"
    /\ tim' = CountDownTimer_listen(tim)
    /\ ret' = Call("listen", U32_ZERO, "Ok", U32_ZERO)
    /\ UNCHANGED <<mono_vars, syst_vars, phase, overflow_checks, bits, handle, hist>>

unlisten ==
    /\ phase = "engine"
    /\ tim' = CountDownTimer_unlisten(tim)
    /\ ret' = Call("unlisten", U32_ZERO, "Ok", U32_ZERO)
    /\ UNCHANGED <<mono_vars, syst_vars, phase, overflow_checks, bits, handle, hist>>

clear_interrupt ==
    /\ phase = "engine"
    /\ tim' = CountDownTimer_clear_interrupt(tim)
    /\ ret' = Call("clear_interrupt", U32_ZERO, "Ok", U32_ZERO)
    /\ hist' = IF hist.started THEN [hist EXCEPT !.cleared = TRUE] ELSE hist
    /\ UNCHANGED <<mono_vars, syst_vars, phase, overflow_checks, bits, handle>>

release ==
    /\ phase = "engine"
    /\ tim' = CountDownTimer_release(tim)
    /\ phase' = "released"
    /\ ret' = Call("release", U32_ZERO, "Ok", U32_ZERO)
    /\ hist' = [HistIdle EXCEPT !.stopped_running = tim.cen, !.unpaid = hist.unpaid]
    /\ UNCHANGED <<mono_vars, syst_vars, overflow_checks, bits, handle>>

now ==
    /\ phase = "engine"
    /\ LET r == CountDownTimer_now(tim, bits, overflow_checks)
       IN  /\ ret' = Call("now", U32_ZERO, IF r.panic THEN "panic" ELSE "Ok", r.val)
           /\ phase' = IF r.panic THEN "panicked" ELSE phase
    /\ UNCHANGED <<mono_vars, syst_vars, overflow_checks, bits, handle, tim, hist>>

start(timeout) ==
    /\ phase = "engine"
    /\ LET r == CountDownTimer_start(tim, timeout, bits, overflow_checks)
       IN  /\ tim' = r.tim
           /\ ret' = Call("start", timeout, r.res, U32_ZERO)
           /\ phase' = IF r.res = "panic" THEN "panicked" ELSE phase
           /\ hist' = IF r.res = "Ok"
                      THEN [HistIdle EXCEPT !.started = TRUE, !.timeout = timeout,
                                            !.last_start_ok = TRUE,
                                            !.unpaid = hist.unpaid]
                      ELSE [HistIdle EXCEPT !.stopped_running = tim.cen,
                                            !.unpaid = hist.unpaid]
    /\ UNCHANGED <<mono_vars, syst_vars, overflow_checks, bits, handle>>

wait ==
    /\ phase = "engine"
    /\ LET r == CountDownTimer_wait(tim)
       IN  /\ tim' = r.tim
           /\ ret' = Call("wait", U32_ZERO, r.res, U32_ZERO)
           /\ hist' = IF r.res = "Ok"
                      THEN [hist EXCEPT
                               !.done = IF hist.started /\ @ < MaxElapsed THEN @ + 1 ELSE @,
                               !.unpaid = @ - 1]
                      ELSE hist
    /\ UNCHANGED <<mono_vars, syst_vars, phase, overflow_checks, bits, handle>>

cancel ==
    /\ phase = "engine"
    /\ LET r == CountDownTimer_cancel(tim)
       IN  /\ tim' = r.tim
           /\ ret' = Call("cancel", U32_ZERO, r.res, U32_ZERO)
           /\ hist' = IF r.res = "Ok"
                      THEN [HistIdle EXCEPT !.cancelled_clear = ~tim.uif,
                                            !.unpaid = hist.unpaid]
                      ELSE [hist EXCEPT !.last_start_ok = FALSE]
    /\ UNCHANGED <<mono_vars, syst_vars, phase, overflow_checks, bits, handle>>

\* One tick of the counter clock CK_CNT: the enabled counter counts up and,
\* at the auto-reload value, restarts from 0 with an update event (UIF set);
\* the count 0 matches the compare registers (reset value 0): CCxIF is set.
Tick ==
    /\ tim.cen
    /\ tim.arr # U32_ZERO
    /\ hist.elapsed < MaxElapsed
    /\ tim' = IF tim.cnt = tim.arr
              THEN [tim EXCEPT !.cnt = U32_ZERO, !.uif = TRUE, !.ccif = TRUE]
              ELSE [tim EXCEPT !.cnt = wrapping_inc(@)]
    /\ hist' = [hist EXCEPT !.elapsed = @ + 1,
                            !.expired = IF tim.cnt = tim.arr THEN @ + 1 ELSE @,
                            !.unpaid = IF tim.cnt = tim.arr /\ @ < MaxUnpaid
                                       THEN @ + 1 ELSE @]
    /\ UNCHANGED <<mono_vars, syst_vars, phase, overflow_checks, bits, handle, ret>>

Next ==
    \/ new
    \/ listen
    \/ unlisten
    \/ clear_interrupt
    \/ release
    \/ now
    \/ \E timeout \in TimeoutSet : start(timeout)
    \/ wait
    \/ cancel
    \/ Tick

Spec == Init /\ [][Next]_vars

\* The construction alone, as a function of (clk, FREQ, width, build).
InitNew ==
    /\ phase = "handle"
    /\ overflow_checks \in BOOLEAN
    /\ bits \in {16, 32}
    /\ handle \in [clk : NewClkSet, freq : NewFreqSet]
    /\ tim = ResetState(bits)
    /\ ret = Call("Timer::new", U32_ZERO, "Ok", U32_ZERO)
    /\ hist = HistIdle
    /\ MonoIdle
    /\ SystIdle

NextNew == new

SpecNew == InitNew /\ [][NextNew]_vars

----------------------------------------------------------------------------
(* The engine polled by a caller while the counter clock keeps running     *)

\* timeouts of the polled timer
LiveTimeoutSet == {U32(n) : n \in 0..MaxTimeout}

\* a start on a timer that is not running
first_start(timeout) ==
    /\ ~hist.started
    /\ start(timeout)

\* One tick of the counter clock as in Tick, followed for ever: the history
\* stops counting at MaxElapsed.
TickLive ==
    /\ tim.cen
    /\ tim.arr # U32_ZERO
    /\ tim' = IF tim.cnt = tim.arr
              THEN [tim EXCEPT !.cnt = U32_ZERO, !.uif = TRUE, !.ccif = TRUE]
              ELSE [tim EXCEPT !.cnt = wrapping_inc(@)]
    /\ hist' = [hist EXCEPT
                   !.elapsed = IF @ < MaxElapsed THEN @ + 1 ELSE @,
                   !.expired = IF tim.cnt = tim.arr /\ @ < MaxElapsed THEN @ + 1 ELSE @,
                   !.unpaid = IF tim.cnt = tim.arr /\ @ < MaxUnpaid THEN @ + 1 ELSE @]
    /\ UNCHANGED <<mono_vars, syst_vars, phase, overflow_checks, bits, handle, ret>>

InitLive ==
    /\ Init
    /\ bits = 16
    /\ handle = [clk |-> 16000000, freq |-> 1000000]

NextLive ==
    \/ new
    \/ listen
    \/ unlisten
    \/ clear_interrupt
    \/ release
    \/ now
    \/ \E timeout \in LiveTimeoutSet : first_start(timeout)
    \/ wait
    \/ cancel
    \/ TickLive

\* The counter clock keeps running and the caller keeps polling wait().
SpecLive ==
    InitLive /\ [][NextLive]_vars /\ WF_vars(TickLive) /\ WF_vars(wait)

----------------------------------------------------------------------------
(* The embedded-hal traits CountDown and Cancel of CountDownTimer          *)

\* a trait start that drops the result of the inherent start
CountDown_start_ignoring(t, timeout, w, checks) ==
    LET r == CountDownTimer_start(t, timeout, w, checks)
    IN  [res |-> IF r.res = "panic" THEN "panic" ELSE "Ok", tim |-> r.tim]

\* CountDown::start: self.start(timeout.into()).unwrap()
CountDown_start(t, timeout, w, checks) ==
    LET r == CountDownTimer_start(t, timeout, w, checks)
    IN  [res |-> IF r.res = "Ok" THEN "Ok" ELSE "panic", tim |-> r.tim]

\* CountDown::wait: WouldBlock stays WouldBlock, everything else is Ok(())
CountDown_wait(t) ==
    LET r == CountDownTimer_wait(t)
    IN  [res |-> IF r.res = "WouldBlock" THEN "WouldBlock" ELSE "Ok", tim |-> r.tim]

\* Cancel::cancel: self.cancel()
Cancel_cancel(t) == CountDownTimer_cancel(t)

hal_start(timeout) ==
    /\ phase = "engine"
    /\ LET r == CountDown_start(tim, timeout, bits, overflow_checks)
       IN  /\ tim' = r.tim
           /\ ret' = Call("CountDown::start", timeout, r.res, U32_ZERO)
           /\ phase' = IF r.res = "panic" THEN "panicked" ELSE phase
           /\ hist' = IF r.res = "Ok"
                      THEN [HistIdle EXCEPT !.started = TRUE, !.timeout = timeout,
                                            !.last_start_ok = TRUE,
                                            !.unpaid = hist.unpaid]
                      ELSE [HistIdle EXCEPT !.stopped_running = tim.cen,
                                            !.unpaid = hist.unpaid]
    /\ UNCHANGED <<mono_vars, syst_vars, overflow_checks, bits, handle>>

hal_wait ==
    /\ phase = "engine"
    /\ LET r == CountDown_wait(tim)
       IN  /\ tim' = r.tim
           /\ ret' = Call("CountDown::wait", U32_ZERO, r.res, U32_ZERO)
           /\ hist' = IF r.res = "Ok"
                      THEN [hist EXCEPT
                               !.done = IF hist.started /\ @ < MaxElapsed THEN @ + 1 ELSE @,
                               !.unpaid = @ - 1]
                      ELSE hist
    /\ UNCHANGED <<mono_vars, syst_vars, phase, overflow_checks, bits, handle>>

hal_cancel ==
    /\ phase = "engine"
    /\ LET r == Cancel_cancel(tim)
       IN  /\ tim' = r.tim
           /\ ret' = Call("Cancel::cancel", U32_ZERO, r.res, U32_ZERO)
           /\ hist' = IF r.res = "Ok"
                      THEN [HistIdle EXCEPT !.cancelled_clear = ~tim.uif,
                                            !.unpaid = hist.unpaid]
                      ELSE [hist EXCEPT !.last_start_ok = FALSE]
    /\ UNCHANGED <<mono_vars, syst_vars, phase, overflow_checks, bits, handle>>

\* The engine driven through its traits.
NextHal ==
    \/ new
    \/ \E timeout \in TimeoutSet : hal_start(timeout)
    \/ hal_wait
    \/ hal_cancel
    \/ Tick

SpecHal == Init /\ [][NextHal]_vars

----------------------------------------------------------------------------
(* MonoTimer and Instant on the cycle counter DWT.CYCCNT                   *)

\* advances of the cycle counter followed in one behaviour
MaxAdvance == 3

\* values of CYCCNT when the monotonic clock is created: 0, 2^31, 0xFFFF_FFF0
StartCycles == {U32_ZERO, <<32768, 0>>, <<U16_MAX, 65520>>}

\* numbers of cycles the counter advances by: 1, 0x20, 2^16, 2^31, 2^32 - 1
CycleSteps == {U32_ONE, <<0, 32>>, <<1, 0>>, <<32768, 0>>, U32_MAX}

\* an elapsed() that does not wrap: 0 when the counter is below the snapshot
Instant_elapsed_saturating(c, now_) ==
    IF U32Lt(c, now_) THEN U32_ZERO ELSE wrapping_sub(c, now_)

\* Instant::elapsed with c = DWT::get_cycle_count()
Instant_elapsed(c, now_) == wrapping_sub(c, now_)

\* MonoTimer::now: Instant { now: DWT::get_cycle_count() }
MonoTimer_now ==
    /\ instant' = dwt
    /\ mono_obs' = [mono_obs EXCEPT !.op = "now", !.val = U32_ZERO, !.wraps = 0,
                                    !.cycles = U32_ZERO]
    /\ UNCHANGED <<dwt, tim_vars, syst_vars>>

elapsed ==
    /\ mono_obs.op # "new"
    /\ mono_obs' = [mono_obs EXCEPT !.op = "elapsed",
                                    !.val = Instant_elapsed(dwt, instant)]
    /\ UNCHANGED <<dwt, instant, tim_vars, syst_vars>>

\* The core runs d cycles: CYCCNT counts them modulo 2^32.
Cycles(d) ==
    /\ mono_obs.advances < MaxAdvance
    /\ dwt' = AddCarry(dwt, d).val
    /\ LET sum == AddCarry(mono_obs.cycles, d)
       IN  mono_obs' = [mono_obs EXCEPT !.op = IF @ = "new" THEN "new" ELSE "cycles",
                                        !.cycles = sum.val,
                                        !.wraps = @ + sum.carry,
                                        !.advances = @ + 1]
    /\ UNCHANGED <<instant, tim_vars, syst_vars>>

\* The engine when it is not followed.
TimIdle ==
    /\ phase = "handle"
    /\ bits = 16
    /\ handle = [clk |-> 0, freq |-> 0]
    /\ tim = ResetState(bits)
    /\ ret = Call("idle", U32_ZERO, "Ok", U32_ZERO)
    /\ hist = HistIdle

\* MonoTimer::new has run: the cycle counter is enabled and cannot be stopped.
InitMono ==
    /\ dwt \in StartCycles
    /\ instant = U32_ZERO
    /\ mono_obs = [op |-> "new", val |-> U32_ZERO, wraps |-> 0, cycles |-> U32_ZERO,
                   advances |-> 0]
    /\ overflow_checks \in BOOLEAN
    /\ TimIdle
    /\ SystIdle

NextMono ==
    \/ MonoTimer_now
    \/ elapsed
    \/ \E d \in CycleSteps : Cycles(d)

SpecMono == InitMono /\ [][NextMono]_vars

----------------------------------------------------------------------------
(* SysCountDownTimer on the system tick peripheral SYST                    *)

\* clocks of the system timer followed after a start
MaxSysTicks == 4

\* 1 << 24
RELOAD_LIMIT == <<256, 0>>

\* x * m modulo 2^32 for a u32 x and a small m; panics on overflow in a build
\* with overflow checks
Mul(x, m, checks) ==
    LET lo == x[2] * m
        hi == x[1] * m + (lo \div Half)
    IN  IF hi >= Half /\ checks
        THEN [panic |-> TRUE, val |-> U32_ZERO]
        ELSE [panic |-> FALSE, val |-> <<hi % Half, lo % Half>>]

\* x / m for a u32 x and a small m > 0
DivSmall(x, m) == <<x[1] \div m, ((x[1] % m) * Half + x[2]) \div m>>

\* a u32 below 2^24 as a number
Nat24(x) == x[1] * Half + x[2]

\* Reading SYST.CSR returns COUNTFLAG and clears it.
SYST_read_csr(s) == [s EXCEPT !.countflag = FALSE]

SYST_set_reload(s, v) == [s EXCEPT !.rvr = v]

\* Any write to SYST.CVR clears the current value and COUNTFLAG.
SYST_clear_current(s) == [s EXCEPT !.cvr = 0, !.countflag = FALSE]

SYST_enable_counter(s) == [SYST_read_csr(s) EXCEPT !.enable = TRUE]

SYST_disable_counter(s) == [SYST_read_csr(s) EXCEPT !.enable = FALSE]

SYST_enable_interrupt(s) == [SYST_read_csr(s) EXCEPT !.tickint = TRUE]

SYST_disable_interrupt(s) == [SYST_read_csr(s) EXCEPT !.tickint = FALSE]

SYST_has_wrapped(s) == [val |-> s.countflag, syst |-> SYST_read_csr(s)]

SYST_is_counter_enabled(s) == [val |-> s.enable, syst |-> SYST_read_csr(s)]

\* SysCountDownTimer::new: mhz
SysCountDownTimer_new(clk) == clk \div 1000000

SysCountDownTimer_start(s, timeout, m, checks) ==
    LET prod == Mul(timeout, m, checks)
        rvr  == Sub(prod.val, U32_ONE, checks)
    IN  IF prod.panic \/ rvr.panic \/ ~U32Lt(rvr.val, RELOAD_LIMIT)
        THEN [res |-> "panic", syst |-> s]
        ELSE [res |-> "Ok",
              syst |-> SYST_enable_counter(
                           SYST_clear_current(SYST_set_reload(s, Nat24(rvr.val))))]

\* a wait with the test inverted
SysCountDownTimer_wait_inverted(s) ==
    LET w == SYST_has_wrapped(s)
    IN  [res |-> IF ~w.val THEN "Ok" ELSE "WouldBlock", syst |-> w.syst]

SysCountDownTimer_wait(s) ==
    LET w == SYST_has_wrapped(s)
    IN  [res |-> IF w.val THEN "Ok" ELSE "WouldBlock", syst |-> w.syst]

SysCountDownTimer_cancel(s) ==
    LET e == SYST_is_counter_enabled(s)
    IN  IF ~e.val
        THEN [res |-> "Disabled", syst |-> e.syst]
        ELSE [res |-> "Ok", syst |-> SYST_disable_counter(e.syst)]

SysCountDownTimer_listen(s) == SYST_enable_interrupt(s)

SysCountDownTimer_unlisten(s) == SYST_disable_interrupt(s)

\* (SYST::get_reload() - SYST::get_current()) / self.mhz
SysCountDownTimer_now(s, m, checks) ==
    LET d == Sub(U32(s.rvr), U32(s.cvr), checks)
    IN  IF d.panic \/ m = 0
        THEN [res |-> "panic", val |-> U32_ZERO]
        ELSE [res |-> "Ok", val |-> DivSmall(d.val, m)]

\* core clocks in Hz
SysClkSet == {500000, 1000000, 2000000, 84000000}

\* timeouts in microseconds: small ones, 2^24, 2^24 + 1, 51_130_564 (times 84
\* is 2^32 + 80), 2^31 and 2^32 - 1
SysTimeoutSet ==
    {U32(n) : n \in 0..3} \cup {RELOAD_LIMIT, <<256, 1>>, <<780, 12484>>, <<32768, 0>>, U32_MAX}

SysRunning == sys_obs.res # "panic"

sys_start(timeout) ==
    /\ SysRunning
    /\ LET r == SysCountDownTimer_start(syst, timeout, mhz, overflow_checks)
       IN  /\ syst' = r.syst
           /\ sys_obs' = IF r.res = "Ok"
                         THEN [op |-> "start", arg |-> timeout, res |-> "Ok", val |-> U32_ZERO,
                               started |-> TRUE, stale |-> syst.countflag,
                               wrapped |-> 0, done |-> 0, elapsed |-> 0]
                         ELSE [sys_obs EXCEPT !.op = "start", !.arg = timeout,
                                              !.res = "panic"]
    /\ UNCHANGED <<mhz, tim_vars, mono_vars>>

sys_wait ==
    /\ SysRunning
    /\ LET r == SysCountDownTimer_wait(syst)
       IN  /\ syst' = r.syst
           /\ sys_obs' = [sys_obs EXCEPT !.op = "wait", !.res = r.res,
                                         !.done = IF r.res = "Ok" THEN @ + 1 ELSE @]
    /\ UNCHANGED <<mhz, tim_vars, mono_vars>>

sys_cancel ==
    /\ SysRunning
    /\ LET r == SysCountDownTimer_cancel(syst)
       IN  /\ syst' = r.syst
           /\ sys_obs' = [sys_obs EXCEPT !.op = "cancel", !.res = r.res]
    /\ UNCHANGED <<mhz, tim_vars, mono_vars>>

sys_listen ==
    /\ SysRunning
    /\ syst' = SysCountDownTimer_listen(syst)
    /\ sys_obs' = [sys_obs EXCEPT !.op = "listen", !.res = "Ok"]
    /\ UNCHANGED <<mhz, tim_vars, mono_vars>>

sys_unlisten ==
    /\ SysRunning
    /\ syst' = SysCountDownTimer_unlisten(syst)
    /\ sys_obs' = [sys_obs EXCEPT !.op = "unlisten", !.res = "Ok"]
    /\ UNCHANGED <<mhz, tim_vars, mono_vars>>

sys_now ==
    /\ SysRunning
    /\ LET r == SysCountDownTimer_now(syst, mhz, overflow_checks)
       IN  sys_obs' = [sys_obs EXCEPT !.op = "now", !.res = r.res, !.val = r.val]
    /\ UNCHANGED <<syst, mhz, tim_vars, mono_vars>>

\* One clock of the system timer: it counts down, sets COUNTFLAG on the step
\* from 1 to 0 and reloads from the reload register on the clock after 0.
SysTickClock ==
    /\ SysRunning
    /\ syst.enable
    /\ sys_obs.elapsed < MaxSysTicks
    /\ LET wraps == syst.cvr = 1
       IN  /\ syst' = [syst EXCEPT !.cvr = IF syst.cvr = 0 THEN syst.rvr ELSE syst.cvr - 1,
                                   !.countflag = @ \/ wraps]
           /\ sys_obs' = [sys_obs EXCEPT !.elapsed = @ + 1,
                                         !.wrapped = IF wraps THEN @ + 1 ELSE @]
    /\ UNCHANGED <<mhz, tim_vars, mono_vars>>

\* Timer::syst(..).count_down() has run on a system timer in any earlier state.
InitSys ==
    /\ \E clk \in SysClkSet : mhz = SysCountDownTimer_new(clk)
    /\ syst \in [enable : {FALSE}, tickint : {FALSE}, countflag : BOOLEAN,
                  rvr : {0}, cvr : {0}]
    /\ sys_obs = [op |-> "new", arg |-> U32_ZERO, res |-> "Ok", val |-> U32_ZERO,
                  started |-> FALSE, stale |-> FALSE,
                  wrapped |-> 0, done |-> 0, elapsed |-> 0]
    /\ overflow_checks \in BOOLEAN
    /\ TimIdle
    /\ MonoIdle

NextSys ==
    \/ \E timeout \in SysTimeoutSet : sys_start(timeout)
    \/ sys_wait
    \/ sys_cancel
    \/ sys_listen
    \/ sys_unlisten
    \/ sys_now
    \/ SysTickClock

SpecSys == InitSys /\ [][NextSys]_vars

----------------------------------------------------------------------------
(* Observations used by the properties                                     *)

\* what wait() would return in the current state
WaitResult == CountDownTimer_wait(tim).res

\* what now() would return in the current state
NowValue == CountDownTimer_now(tim, bits, overflow_checks).val

\* a start returned Ok, the counter runs, and nobody has consumed the update
\* flag since (no wait() returned complete, no clear_interrupt())
FirstPeriod == hist.started /\ hist.done = 0 /\ ~hist.cleared

----------------------------------------------------------------------------
(* Properties                                                              *)

\* C1: for every timeout T in [1, reload_max] start(T) returns Ok; a wait()
\* polled when exactly T ticks have elapsed since start returns complete,
\* and a wait() polled after only T-1 ticks returns would-block.
C1_FirstPeriodIsTimeout ==
    /\ (ret.op = "start" /\ U32Le(U32_ONE, ret.arg) /\ U32Le(ret.arg, WidthMax(bits)))
           => ret.res = "Ok"
    /\ (FirstPeriod /\ U32Le(U32_ONE, hist.timeout) /\ U32Le(hist.timeout, WidthMax(bits))) =>
           /\ U32(hist.elapsed) = hist.timeout => WaitResult = "Ok"
           /\ U32(hist.elapsed + 1) = hist.timeout => WaitResult = "WouldBlock"

\* C2: after a start() that returned Ok the update flag is clear until a
\* period expires after that start, so no wait() returns complete before an
\* update event that follows the start.
C2_StartClearsUpdateFlag ==
    hist.started /\ hist.expired = 0 => ~tim.uif /\ WaitResult = "WouldBlock"

\* C3: start(0) returns WrongAutoReload on either width, leaves the counter
\* disabled and leaves the auto-reload register as it was.
C3_StartZeroRejected ==
    [][start(U32_ZERO) =>
          /\ ret'.res = "WrongAutoReload"
          /\ ~tim'.cen
          /\ tim'.arr = tim.arr]_vars

\* C4: while the first period after start(T) runs, now() returns the number
\* of ticks elapsed since the start: 0 (or at most 1) right after start, and
\* k after k < T ticks.
C4_NowIsElapsed ==
    (hist.started /\ U32Lt(U32(hist.elapsed), hist.timeout)) =>
        IF hist.elapsed = 0
        THEN NowValue \in {U32_ZERO, U32_ONE}
        ELSE NowValue = U32(hist.elapsed)

\* C5: after a start(T) that returned Ok and a wait() that returned complete,
\* every step but start, cancel and release leaves the counter enabled with
\* the same period, and each tick that completes a further multiple of T
\* ticks reloads the counter and makes wait() return complete again.
C5_Periodic ==
    [][(hist.started /\ hist.done >= 1) =>
          /\ (~(\E t \in TimeoutSet : start(t)) /\ ~cancel /\ ~release)
                 => tim'.cen /\ tim'.arr = tim.arr
          /\ (/\ Tick
              /\ hist.timeout[1] = 0
              /\ hist.timeout[2] > 0
              /\ (hist.elapsed + 1) % hist.timeout[2] = 0)
                 => tim'.cnt = U32_ZERO /\ CountDownTimer_wait(tim').res = "Ok"]_vars

\* two periods of one start, each consumed by a wait() that returned complete
C5_Witness ==
    /\ hist.started /\ ~hist.cleared
    /\ hist.done = 2 /\ hist.expired = 2
    /\ U32(hist.elapsed) = <<0, 2 * hist.timeout[2]>>
    /\ ret.op = "wait" /\ ret.res = "Ok"

\* C6: cancel() returns Disabled exactly when the counter is not enabled and
\* then changes nothing; otherwise it disables the counter and returns Ok.
\* So it returns Disabled right after construction and right after a cancel,
\* and Ok right after a start that returned Ok.
C6_Cancel ==
    [][cancel =>
          /\ (ret'.res = "Disabled") = ~tim.cen
          /\ ~tim.cen => tim' = tim /\ hist' = hist /\ phase' = phase
          /\ tim.cen => ret'.res = "Ok" /\ tim' = [tim EXCEPT !.cen = FALSE]
          /\ ret.op \in {"new", "cancel"} => ret'.res = "Disabled"
          /\ (ret.op = "start" /\ ret.res = "Ok") => ret'.res = "Ok"]_vars

\* a cancel() has stopped a started counter
C6_Witness == ret.op = "cancel" /\ ret.res = "Ok" /\ ~tim.cen

\* C7: wait() returns would-block exactly when UIF is clear and then changes
\* nothing; with UIF set it clears UIF, leaves the counter and its
\* configuration alone and returns Ok; it never returns Disabled or
\* WrongAutoReload.
C7_WaitContract ==
    [][wait =>
          /\ (ret'.res = "WouldBlock") = ~tim.uif
          /\ ~tim.uif => tim' = tim /\ hist' = hist /\ phase' = phase
          /\ tim.uif =>
                 /\ ret'.res = "Ok"
                 /\ [tim' EXCEPT !.ccif = FALSE] = [tim EXCEPT !.uif = FALSE, !.ccif = FALSE]
          /\ ret'.res \in {"Ok", "WouldBlock"}]_vars

\* a wait() has consumed the update flag of an expired period
C7_Witness ==
    ret.op = "wait" /\ ret.res = "Ok" /\ ~tim.uif /\ hist.expired >= 1

\* C8: from a cancel() that returned Ok with the update flag clear until the
\* next start(), the flag stays clear and every wait() returns would-block;
\* what wait() returns does not depend on the counter being enabled.
C8_CancelNotReported ==
    /\ hist.cancelled_clear =>
           /\ ~tim.uif
           /\ WaitResult = "WouldBlock"
           /\ ret.op = "wait" => ret.res = "WouldBlock"
    /\ phase = "engine" =>
           WaitResult = CountDownTimer_wait([tim EXCEPT !.cen = ~@]).res

\* a wait() polled after such a cancel()
C8_Witness ==
    hist.cancelled_clear /\ ~tim.cen /\ ret.op = "wait" /\ ret.res = "WouldBlock"

\* C9: for a timeout T >= 1, start(T) returns WrongAutoReload exactly when
\* T - 1 is zero or above the maximum of the counter width; otherwise it
\* returns Ok, the auto-reload register holds T - 1 and the counter is enabled.
C9_StartResult ==
    (ret.op = "start" /\ ret.arg # U32_ZERO) =>
        LET arr == wrapping_sub(ret.arg, U32_ONE)
        IN  IF arr = U32_ZERO \/ U32Lt(WidthMax(bits), arr)
            THEN ret.res = "WrongAutoReload"
            ELSE ret.res = "Ok" /\ tim.arr = arr /\ tim.cen

\* a 16-bit timer has refused the timeout 65537 (reload 65536)
C9_Witness ==
    bits = 16 /\ ret.op = "start" /\ ret.arg = <<1, 1>> /\ ret.res = "WrongAutoReload"

\* C10: when clk / FREQ is an integer in [1, 65536], construction returns
\* the engine (no panic) with the prescaler register equal to clk / FREQ - 1.
C10_Prescaler ==
    [][new =>
          LET q == handle.clk \div handle.freq
          IN  (handle.clk % handle.freq = 0 /\ q \in 1..(U16_MAX + 1)) =>
                  /\ ret'.res = "Ok"
                  /\ phase' = "engine"
                  /\ tim'.psc = q - 1]_vars

\* construction with the largest divider, 65536, at FREQ = 1 kHz
C10_Witness ==
    ret.op = "new" /\ ret.res = "Ok" /\ handle.freq = 1000 /\ tim.psc = U16_MAX

\* C11: construction panics whenever clk / FREQ - 1 does not fit the 16-bit
\* divider register, also when clk < FREQ makes the quotient 0; a
\* construction that returns has written exactly clk / FREQ - 1, never a
\* truncated or wrapped divider.
C11_DividerMustFit ==
    [][new =>
          LET q == handle.clk \div handle.freq
          IN  /\ (q = 0 \/ q > U16_MAX + 1) =>
                     /\ ret'.res = "panic"
                     /\ phase' = "panicked"
                     /\ tim' = tim
              /\ ret'.res = "Ok" => q \in 1..(U16_MAX + 1) /\ tim'.psc = q - 1]_vars

\* clk < FREQ in a build without overflow checks: 0 - 1 wraps, u16() fails
C11_Witness ==
    /\ ret.op = "new" /\ ret.res = "panic" /\ phase = "panicked"
    /\ ~overflow_checks
    /\ U32Lt(ret.arg, U32(handle.freq))

\* C12: elapsed() returns (c - s) mod 2^32 for the snapshot s and the counter
\* value c: the cycles truly elapsed since the snapshot when fewer than 2^32
\* have passed, also when c < s, and their count modulo 2^32 otherwise;
\* s = 0xFFFF_FFF0 and c = 0x10 give 0x20.
C12_ElapsedWraps ==
    mono_obs.op = "elapsed" =>
        /\ mono_obs.val = mono_obs.cycles
        /\ dwt = AddCarry(instant, mono_obs.val).val
        /\ (instant = <<U16_MAX, 65520>> /\ dwt = <<0, 16>>) => mono_obs.val = <<0, 32>>

\* the counter has overflowed once since the snapshot at 0xFFFF_FFF0
C12_Witness ==
    /\ mono_obs.op = "elapsed"
    /\ instant = <<U16_MAX, 65520>> /\ dwt = <<0, 16>>
    /\ mono_obs.wraps = 0
    /\ mono_obs.val = <<0, 32>>

\* C13: start(timeout) on the system timer either panics and leaves the
\* reload register alone, or programs exactly timeout * mhz - 1, a value below
\* 2^24; a wrapped 32-bit product is never programmed.
C13_ExactReload ==
    [][(sys_obs'.op = "start" /\ sys_start(sys_obs'.arg)) =>
              \/ sys_obs'.res = "panic" /\ syst'.rvr = syst.rvr
              \/ /\ sys_obs'.res = "Ok"
                 /\ syst'.rvr < Nat24(RELOAD_LIMIT)
                 /\ mhz > 0
                 /\ (syst'.rvr + 1) % mhz = 0
                 /\ U32((syst'.rvr + 1) \div mhz) = sys_obs'.arg]_vars

\* C14: start() clears a pending wrap flag, so a wait() right after it returns
\* WouldBlock; wait() returns Ok only when the counter has wrapped since the
\* start more often than wait() has returned Ok; wait() returns no Error.
C14_SysWaitContract ==
    [][/\ (sys_obs'.op = "start" /\ sys_obs'.res = "Ok" /\ sys_start(sys_obs'.arg)) =>
              /\ ~syst'.countflag
              /\ SysCountDownTimer_wait(syst').res = "WouldBlock"
       /\ sys_wait =>
              /\ sys_obs'.res \in {"Ok", "WouldBlock"}
              /\ (sys_obs.started /\ sys_obs'.res = "Ok") =>
                     sys_obs.done < sys_obs.wrapped
       /\ sys_obs.started => sys_obs'.done <= sys_obs'.wrapped]_vars

\* a wait() completes after a wrap, the start having cleared a stale flag
C14_Witness ==
    /\ sys_obs.op = "wait" /\ sys_obs.res = "Ok"
    /\ sys_obs.started /\ sys_obs.stale
    /\ sys_obs.done = 1 /\ sys_obs.wrapped = 1

\* C15: release() in any state hands the peripheral back with the counter
\* disabled, and nothing changes the peripheral (no count, no update event)
\* once it is released.
C15_ReleaseStops ==
    [][/\ release => ~tim'.cen /\ phase' = "released"
       /\ phase = "released" => tim' = tim]_vars

\* released while the counter was running, in the middle of a period
C15_Witness ==
    /\ phase = "released" /\ ret.op = "release"
    /\ hist.stopped_running
    /\ ~tim.cen /\ tim.cnt # U32_ZERO

\* C19: a start that returns WrongAutoReload keeps ARR and the update flag but
\* leaves the counter disabled and reset to zero, also when it was running,
\* and a cancel() right after it returns Disabled.
C19_FailedStart ==
    [][(ret'.res = "WrongAutoReload" /\ start(ret'.arg)) =>
              /\ tim'.arr = tim.arr
              /\ tim'.uif = tim.uif
              /\ ~tim'.cen
              /\ tim'.cnt = U32_ZERO
              /\ CountDownTimer_cancel(tim').res = "Disabled"]_vars

\* a running timer with a pending update flag is stopped by a failed start
C19_Witness ==
    /\ ret.op = "start" /\ ret.res = "WrongAutoReload"
    /\ hist.stopped_running
    /\ ~tim.cen /\ tim.uif /\ tim.arr = <<0, 1>>

\* C20: the counter is enabled exactly when the most recent call among
\* start(), cancel() and release() was a start() that returned Ok.
C20_EnabledIffStarted == tim.cen <=> hist.last_start_ok

\* still enabled after a completed period and a wait() that consumed it
C20_Witness ==
    /\ tim.cen /\ hist.last_start_ok
    /\ ret.op = "wait" /\ ret.res = "Ok"
    /\ hist.expired >= 1

\* C18: listen(TimeOut) and unlisten(TimeOut) change only the update
\* interrupt enable bit and clear_interrupt(TimeOut) changes only the update
\* flag, so that a following wait(), cancel() or now() is not affected by
\* listen/unlisten.
C18_OnlyTheirBit ==
    [][/\ (listen \/ unlisten) =>
              /\ tim' = [tim EXCEPT !.uie = tim'.uie]
              /\ CountDownTimer_wait(tim').res = CountDownTimer_wait(tim).res
              /\ CountDownTimer_cancel(tim').res = CountDownTimer_cancel(tim).res
              /\ CountDownTimer_now(tim', bits, overflow_checks) =
                     CountDownTimer_now(tim, bits, overflow_checks)
       /\ clear_interrupt => tim' = [tim EXCEPT !.uif = FALSE]]_vars

\* C17: start() takes its register steps in the order disable counter, reset
\* count, write auto-reload, force update event, enable counter; the counter
\* is disabled after every step but the last, and the enabling step is taken
\* only when the auto-reload write succeeded.
C17_StartOrder ==
    [][(ret'.op = "start" /\ start(ret'.arg)) =>
          \A s \in {CountDownTimer_start_steps(tim, ret'.arg, bits, overflow_checks)} :
              LET timeout == ret'.arg
                  n == Len(s.trace)
                  order == <<"disable_counter", "reset_counter", "set_auto_reload",
                             "trigger_update", "enable_counter">>
              IN  /\ n \in 2..5
                  /\ \A i \in 1..n : s.trace[i].step = order[i]
                  /\ \A i \in 1..n : s.trace[i].tim.cen => (i = 5 /\ s.res = "Ok")
                  /\ s.trace[2].tim.cnt = U32_ZERO
                  /\ n >= 4 => /\ s.res = "Ok"
                               /\ s.trace[3].tim.arr = wrapping_sub(timeout, U32_ONE)
                  /\ (n = 5) = (s.res = "Ok")
                  /\ tim' = s.trace[n].tim
                  /\ ret'.res = s.res
                  /\ tim'.cen = (ret'.res = "Ok")]_vars

\* a timer with an earlier period behind it has been reconfigured and enabled
C17_Witness ==
    /\ ret.op = "start" /\ ret.res = "Ok"
    /\ tim.cen /\ tim.cnt = U32_ZERO /\ tim.arr = <<0, 2>>
    /\ tim.uif

\* C16 as stated: after a start that returned Ok, with the counter ticking
\* and wait() polled, and no cancel(), release() or further start(), a wait()
\* eventually returns Ok.
C16_PollingCompletes ==
    (hist.started /\ hist.done = 0) ~> (hist.done >= 1 \/ ~hist.started)

\* C16 amended: the same when also no clear_interrupt() intervenes; and every
\* wait() can be taken in every state of the engine and returns Ok or
\* WouldBlock in that one step.
C16_PollingCompletesUncleared ==
    /\ (hist.started /\ hist.done = 0 /\ ~hist.cleared)
           ~> (hist.done >= 1 \/ ~hist.started \/ hist.cleared)
    /\ [](phase = "engine" => ENABLED wait)
    /\ [][wait => ret'.res \in {"Ok", "WouldBlock"}]_vars

\* the poll that completes, after polls that returned WouldBlock
C16_Witness ==
    /\ hist.started /\ hist.done = 1 /\ ~hist.cleared
    /\ ret.op = "wait" /\ ret.res = "Ok"
    /\ hist.timeout = <<0, 3>> /\ hist.elapsed >= 3

\* C21: the count never exceeds the auto-reload value, so that the
\* subtraction in now() does not underflow in any build and now() returns.
C21_CountWithinReload ==
    /\ U32Le(tim.cnt, tim.arr)
    /\ ~CountDownTimer_now(tim, bits, TRUE).panic
    /\ ret.op = "now" => ret.res = "Ok"

\* now() on a timer cancelled at the last count of a period shortened by a
\* second start
C21_Witness ==
    /\ ret.op = "now" /\ ret.res = "Ok" /\ ret.val = U32_ZERO
    /\ tim.cnt = tim.arr /\ tim.arr = <<0, 1>>
    /\ ~tim.cen /\ tim.uif

\* C22: every wait() that returns Ok answers a period expiry that has occurred
\* since construction and that no earlier wait() has answered; the update
\* forced inside start() leaves the update flag as it was; a second wait()
\* with no expiry in between returns WouldBlock.
C22_CompletionsWithinExpiries ==
    [][/\ tim.uif => hist.unpaid >= 1
       /\ (wait /\ ret'.res = "Ok") =>
              /\ hist.unpaid >= 1
              /\ hist'.unpaid >= 0
              /\ CountDownTimer_wait(tim').res = "WouldBlock"
       /\ (ret'.op = "start" /\ ret'.res = "Ok" /\ start(ret'.arg)) =>
              /\ tim'.uif = tim.uif
              /\ hist'.unpaid = hist.unpaid]_vars

\* a wait() completes right after a restart: it answers an expiry of the
\* period before, none being left
C22_Witness ==
    /\ ret.op = "wait" /\ ret.res = "Ok"
    /\ hist.started /\ hist.expired = 0 /\ hist.done = 1
    /\ hist.unpaid = 0

\* C23: on every state the trait operations do what the inherent ones would
\* do there. CountDown::wait returns WouldBlock exactly when wait() would and
\* Ok otherwise, with the same registers after it; Cancel::cancel returns
\* what cancel() would; CountDown::start leaves the registers as a start()
\* that returns Ok, and panics when start() returns WrongAutoReload and only
\* when start() does not return Ok.
C23_TraitsAgree ==
    [][/\ hal_wait =>
              \A r \in {CountDownTimer_wait(tim)} :
                  /\ (ret'.res = "WouldBlock") = (r.res = "WouldBlock")
                  /\ r.res # "WouldBlock" => ret'.res = "Ok"
                  /\ tim' = r.tim
       /\ hal_cancel =>
              \A r \in {CountDownTimer_cancel(tim)} :
                  ret'.res = r.res /\ tim' = r.tim
       /\ (ret'.op = "CountDown::start" /\ hal_start(ret'.arg)) =>
              \A r \in {CountDownTimer_start(tim, ret'.arg, bits, overflow_checks)} :
                  /\ r.res = "Ok" => ret'.res = "Ok" /\ tim' = r.tim
                  /\ r.res = "WrongAutoReload" => ret'.res = "panic" /\ phase' = "panicked"
                  /\ ret'.res = "panic" => r.res \in {"WrongAutoReload", "panic"}
                  /\ ret'.res \in {"Ok", "panic"}]_vars

\* CountDown::start has panicked on a timeout the inherent start() rejects
C23_Witness ==
    /\ ret.op = "CountDown::start" /\ ret.res = "panic" /\ phase = "panicked"
    /\ ret.arg = U32_ONE
    /\ hist.stopped_running /\ ~tim.cen

====
